---- MODULE Spec2Model ----
(***************************************************************************)
(* GamifiedTaskBot (src/main.py): the completion transaction pipeline, the *)
(* other DB_LOCK-guarded write sections, get_or_create_user and the daily  *)
(* empty-list job, as a state machine.                                     *)
(*                                                                         *)
(* The store is the committed SQLite database (users, tasks, completions)  *)
(* plus the working copy of the one open write transaction (tx).  Every    *)
(* coroutine is a process with a program counter; a coroutine is split at  *)
(* its awaits and at the statements of a guarded section, so that DB_LOCK  *)
(* is what keeps the sections apart.                                       *)
(*                                                                         *)
(* Time is the local wall clock in seconds.  The clock is only observed in *)
(* the first MaxSec seconds of the days 0..MaxDay; a calendar date is the  *)
(* day number, an ISO date string is <<day>> and None is <<>>.             *)
(***************************************************************************)
EXTENDS Integers, Sequences, FiniteSets, TLC

\* ---------------------------------------------------------------- bounds
NumUsers == 2
NumSlots == 2
MaxTasks == 2
MaxDay == 1
MaxSec == 1

\* ------------------------------------------------------ program constants
SecondsPerDay == 86400
DebounceSeconds == 2
XpPerLevel == 100
BasePoints == 10
StreakBonusCap == 10
ResetSignal == -1000000

UserIds == 1..NumUsers
Slots == 1..NumSlots
TaskIds == 1..MaxTasks
Usernames == {"ann"}
DiffTexts == {"3", "hard"}

Max(a, b) == IF a >= b THEN a ELSE b
Min(a, b) == IF a <= b THEN a ELSE b

\* ---------------------------------------------------------------- badges
\* (threshold, name), the names without their emoji.
BADGE_TIERS ==
  << <<300, "Elephant">>, <<200, "Tiger">>, <<150, "Lion">>, <<100, "Jaguar">>,
     <<75, "Leopard">>, <<50, "Cheetah">>, <<30, "Caracal">>, <<21, "Wolf">>,
     <<14, "Fox">>, <<7, "Lynx">>, <<3, "Meerkat">>, <<1, "Jerboa">> >>

RECURSIVE BadgeScan(_, _, _, _)
\* The loop of both badge functions: the first tier whose threshold the
\* streak reaches, its field `col`, or `none` when the loop falls through.
BadgeScan(i, streak, col, none) ==
  IF i > Len(BADGE_TIERS) THEN none
  ELSE IF streak >= BADGE_TIERS[i][1] THEN BADGE_TIERS[i][col]
  ELSE BadgeScan(i + 1, streak, col, none)

badge_name_for_streak(streak) == BadgeScan(1, streak, 2, "None")

\* A scan that stops at the lowest tier the streak reaches.
LowestTier(streak) == IF streak >= 1 THEN 1 ELSE 0

badge_tier_for_streak(streak) == BadgeScan(1, streak, 1, 0)

\* --------------------------------------------------------------- helpers
DateOf(ts) == ts \div SecondsPerDay

IsoDate(d) == <<d>>

FromIsoDate(s) == s[1]

\* A streak update that a gap of days does not reset.
NeverResets(last_activity_date, today) ==
  IF last_activity_date = <<>> THEN 1
  ELSE IF FromIsoDate(last_activity_date) = today THEN 0
  ELSE 1

\* A streak update that takes every completion for the next day's.
AlwaysConsecutive(last_activity_date, today) == 1

\* _compute_streak_update: +1 first completion or yesterday, 0 same day,
\* the reset signal otherwise.
compute_streak_update(last_activity_date, today) ==
  IF last_activity_date = <<>> THEN 1
  ELSE IF FromIsoDate(last_activity_date) = today THEN 0
  ELSE IF FromIsoDate(last_activity_date) = today - 1 THEN 1
  ELSE ResetSignal

\* A streak that starts over unless the completion follows the last day.
IncrementOrReset(delta, streak_current) ==
  IF delta > 0 THEN streak_current + 1 ELSE 1

\* A reset that leaves the streak at 0.
ResetsToZero(delta, streak_current) ==
  IF delta = 0 THEN streak_current
  ELSE IF delta > 0 THEN streak_current + 1
  ELSE 0

\* if delta == 0: pass / elif delta > 0: streak_current += 1 / else: = 1
ApplyDelta(delta, streak_current) ==
  IF delta = 0 THEN streak_current
  ELSE IF delta > 0 THEN streak_current + 1
  ELSE 1

base_points(difficulty) == BasePoints * Max(1, Min(difficulty, 3))

\* A streak bonus without its cap.
UncappedBonus(streak_current) == streak_current * 2

streak_bonus(streak_current) == Min(streak_current, StreakBonusCap) * 2

\* A best streak that follows the current one, down as well as up.
FollowsCurrent(streak_current, streak_best) == streak_current

\* A best streak that is never raised.
KeepsBest(streak_current, streak_best) == streak_best

\* if streak_current > streak_best: streak_best = streak_current
UpdateBest(streak_current, streak_best) ==
  IF streak_current > streak_best THEN streak_current ELSE streak_best

\* A level that counts the hundreds of XP from 0.
LevelFromZero(xp) == xp \div XpPerLevel

\* level = 1 + xp // 100
level_for_xp(xp) == 1 + (xp \div XpPerLevel)

\* Step 4 of _handle_completion on the fetched user row: the new progression
\* fields and the transaction's locals gained, unlocked.
ProgressionCalculator(row, difficulty, today) ==
  LET delta == compute_streak_update(row.last_activity_date, today)
      streak_current == ApplyDelta(delta, row.streak_current)
      streak_best == UpdateBest(streak_current, row.streak_best)
      gained == base_points(difficulty) + streak_bonus(streak_current)
      xp == row.xp + gained
      level == level_for_xp(xp)
      new_tier == badge_tier_for_streak(streak_current)
      unlocked == new_tier > row.best_badge_tier
  IN [xp |-> xp, level |-> level, streak_current |-> streak_current,
      streak_best |-> streak_best, last_activity_date |-> IsoDate(today),
      best_badge_tier |-> IF unlocked THEN new_tier ELSE row.best_badge_tier,
      gained |-> gained, unlocked |-> unlocked]

\* ----------------------------------------------------------------- state
VARIABLES
  clock,        \* local wall clock, seconds
  users,        \* committed users table: user_id -> row
  tasks,        \* committed tasks table: id (AUTOINCREMENT) -> row
  completions,  \* committed completions table: id -> row
  tx,           \* working copy of the open write transaction
  lock,         \* DB_LOCK is held
  pc,           \* position of the handler coroutine in each slot
  loc,          \* its arguments and locals
  reply,        \* the report made by the step just taken, if any
  jpc,          \* position of job_daily_empty_list
  job           \* its locals: today, the users snapshot, the loop index

store == <<users, tasks, completions>>
vars == <<clock, users, tasks, completions, tx, lock, pc, loc, reply, jpc, job>>

NoTx == [open |-> FALSE, users |-> <<>>, tasks |-> <<>>, completions |-> <<>>]

\* waited: the call arrived while another completion held DB_LOCK (history).
NoLoc ==
  [cmd |-> "none", user |-> 0, tid |-> 0, arg |-> 0, now |-> 0, today |-> 0,
   waited |-> FALSE, difficulty |-> 0, gained |-> 0, unlocked |-> FALSE,
   streak_current |-> 0]

\* at: where in its code the handler ended (the traceback, for an error).
NoReply ==
  [kind |-> "none", gained |-> 0, unlocked |-> FALSE, badge |-> "", msg |-> "",
   at |-> ""]

NoJob == [today |-> 0, snap |-> <<>>, i |-> 0]

\* init_db on an empty database file, and the module-level objects.
Init ==
  /\ clock = 0
  /\ users = <<>>
  /\ tasks = <<>>
  /\ completions = <<>>
  /\ tx = NoTx
  /\ lock = FALSE
  /\ pc = [p \in Slots |-> "idle"]
  /\ loc = [p \in Slots |-> NoLoc]
  /\ reply = NoReply
  /\ jpc = "idle"
  /\ job = NoJob

\* ----------------------------------------------------------------- clock
today_local == DateOf(clock)

\* The event loop runs a coroutine up to its next suspension: the clock is
\* read between such runs, while no coroutine is at or inside a section.
Suspended ==
  /\ \A p \in Slots : pc[p] \in {"idle", "del_edit", "nudge_send"}
  /\ jpc \in {"idle", "job_send", "streak_send"}

TickSecond ==
  /\ Suspended
  /\ clock % SecondsPerDay < MaxSec
  /\ clock' = clock + 1
  /\ reply' = NoReply
  /\ UNCHANGED <<users, tasks, completions, tx, lock, pc, loc, jpc, job>>

\* Nothing happens for the rest of the day: the next observed instant is
\* the following midnight.
TickDay ==
  /\ Suspended
  /\ DateOf(clock) < MaxDay
  /\ clock' = (DateOf(clock) + 1) * SecondsPerDay
  /\ reply' = NoReply
  /\ UNCHANGED <<users, tasks, completions, tx, lock, pc, loc, jpc, job>>

\* ------------------------------------------------------------- DB layer
NewUserRow(u, name) ==
  [chat_id |-> u, username |-> name, xp |-> 0, level |-> 1,
   streak_current |-> 0, streak_best |-> 0, best_badge_tier |-> 0,
   last_activity_date |-> <<>>, reminder_enabled |-> 1,
   empty_list_notified_date |-> <<>>]

\* Whether get_or_create_user executes an INSERT or an UPDATE.
GetOrCreateWrites(u, name) ==
  \/ u \notin DOMAIN users
  \/ users[u].chat_id # u
  \/ users[u].username # name

\* An INSERT OR REPLACE in place of the SELECT, UPDATE and INSERT.
ReplacesRow(u, name) == (u :> NewUserRow(u, name)) @@ users

\* The users table after get_or_create_user(teleg_user).
UsersAfterGetOrCreate(u, name) ==
  IF u \in DOMAIN users
  THEN IF users[u].chat_id # u \/ users[u].username # name
       THEN [users EXCEPT ![u].chat_id = u, ![u].username = name]
       ELSE users
  ELSE users @@ (u :> NewUserRow(u, name))

\* get_or_create_user: its own connection and implicit transaction, no
\* DB_LOCK.  A write waits while another connection holds SQLite's write
\* lock (an open BEGIN IMMEDIATE).
get_or_create_user(u, name) ==
  /\ GetOrCreateWrites(u, name) => ~tx.open
  /\ users' = UsersAfterGetOrCreate(u, name)

\* SELECT COUNT(*) FROM tasks WHERE user_id=? AND active=1
ActiveCount(tbl, u) ==
  Cardinality({i \in DOMAIN tbl : tbl[i].user_id = u /\ tbl[i].active = 1})

active_task_count(u) == ActiveCount(tasks, u)

\* BEGIN IMMEDIATE: the transaction's working copy.
Begin == [open |-> TRUE, users |-> users, tasks |-> tasks, completions |-> completions]

\* A rollback that keeps what the transaction wrote so far.
KeepsWrites(t) == t

\* The committed tables after conn.rollback() of working copy t.
RolledBack(t) == [users |-> users, tasks |-> tasks, completions |-> completions]

Rollback(t) ==
  /\ users' = RolledBack(t).users
  /\ tasks' = RolledBack(t).tasks
  /\ completions' = RolledBack(t).completions
  /\ tx' = NoTx

\* conn.commit() of working copy t.
Commit(t) ==
  /\ users' = t.users
  /\ tasks' = t.tasks
  /\ completions' = t.completions
  /\ tx' = NoTx

\* ------------------------------------------------------------- DB_LOCK
WaitPcs == {"done_lock", "del_lock", "add_lock", "rem_lock", "nudge_lock"}

CompletionPcs ==
  {"done_validate", "done_guard", "done_insert", "done_user", "done_commit"}

SectionPcs == CompletionPcs \cup {"del_tx", "add_tx", "rem_tx", "nudge_tx"}

SectionOf(w) ==
  CASE w = "done_lock" -> "done_validate"
    [] w = "del_lock" -> "del_tx"
    [] w = "add_lock" -> "add_tx"
    [] w = "rem_lock" -> "rem_tx"
    [] w = "nudge_lock" -> "nudge_tx"

\* A lock that lets every caller in.
AlwaysFree == TRUE

\* asyncio.Lock.acquire succeeds only on a free lock.
CanAcquire == ~lock

\* async with DB_LOCK: entering.
Acquire(p) ==
  /\ pc[p] \in WaitPcs
  /\ CanAcquire
  /\ lock' = TRUE
  /\ pc' = [pc EXCEPT ![p] = SectionOf(pc[p])]
  /\ reply' = NoReply
  /\ UNCHANGED <<clock, users, tasks, completions, tx, loc, jpc, job>>

\* DB_LOCK after `async with` is left at the end of its body.
Released == FALSE

\* A lock left held by the section that exits early.
StillHeld == TRUE

\* DB_LOCK after `async with` is left by a return or an exception in its body.
ReleasedOnExit == FALSE

\* ------------------------------------------------------------- handlers
\* The handler ends: its locals die, its report r goes to the user.
Finish(p, r) ==
  /\ pc' = [pc EXCEPT ![p] = "idle"]
  /\ loc' = [loc EXCEPT ![p] = NoLoc]
  /\ reply' = [r EXCEPT !.at = pc[p]]

Report(kind) == [NoReply EXCEPT !.kind = kind]

ErrorReply(m) == [NoReply EXCEPT !.kind = "error", !.msg = m]

\* logger.error in a job: the failure is logged, nobody is told.
Logged(m) == [NoReply EXCEPT !.kind = "logged", !.msg = m, !.at = jpc]

\* on_button's message for the tuple _handle_completion returned.
CompletionReply(l) ==
  [kind |-> IF l.gained = 0 THEN "noop" ELSE "ok",
   gained |-> l.gained,
   unlocked |-> l.unlocked,
   badge |-> IF l.unlocked /\ badge_name_for_streak(l.streak_current) # "None"
             THEN badge_name_for_streak(l.streak_current) ELSE "",
   msg |-> "", at |-> ""]

\* What the handler reports once its tail (the empty-list nudge) is over.
TailReply(l) == IF l.cmd = "done" THEN CompletionReply(l) ELSE Report("removed")

NewCall(p, cmd, u, tid, arg) ==
  /\ pc[p] = "idle"
  /\ \A q \in Slots : q < p => pc[q] # "idle"
  /\ loc' = [loc EXCEPT ![p] =
               [NoLoc EXCEPT !.cmd = cmd, !.user = u, !.tid = tid, !.arg = arg,
                             !.now = clock,
                             !.waited = (cmd = "done" /\ \E q \in Slots :
                                                           pc[q] \in CompletionPcs)]]

\* /start, /profile, /addtask, /reminder without a valid argument.
start(u, name) ==
  /\ get_or_create_user(u, name)
  /\ reply' = NoReply
  /\ UNCHANGED <<clock, tasks, completions, tx, lock, pc, loc, jpc, job>>

\* int(text) if text in {"1", "2", "3"} else 1
ParseDifficulty(text) ==
  CASE text = "1" -> 1 [] text = "2" -> 2 [] text = "3" -> 3 [] OTHER -> 1

AddsInFlight == Cardinality({q \in Slots : pc[q] \in {"add_lock", "add_tx"}})

\* addtask_diff up to `async with DB_LOCK`.  The conversation reaches it
\* only after addtask_start created the users row.
addtask_diff(p, u, text) ==
  /\ u \in DOMAIN users
  /\ Len(tasks) + AddsInFlight < MaxTasks
  /\ NewCall(p, "add", u, 0, ParseDifficulty(text))
  /\ pc' = [pc EXCEPT ![p] = "add_lock"]
  /\ reply' = NoReply
  /\ UNCHANGED <<clock, users, tasks, completions, tx, lock, jpc, job>>

\* addtask_diff inside DB_LOCK: BEGIN IMMEDIATE, INSERT, commit; then the reply.
AddTx(p) ==
  /\ pc[p] = "add_tx"
  /\ tasks' = Append(tasks, [user_id |-> loc[p].user, difficulty |-> loc[p].arg,
                             active |-> 1])
  /\ lock' = Released
  /\ Finish(p, Report("added"))
  /\ UNCHANGED <<clock, users, completions, tx, jpc, job>>

\* /reminder on|off up to `async with DB_LOCK`.
reminder_cmd(p, u, name, toggle) ==
  /\ get_or_create_user(u, name)
  /\ NewCall(p, "reminder", u, 0, IF toggle = "on" THEN 1 ELSE 0)
  /\ pc' = [pc EXCEPT ![p] = "rem_lock"]
  /\ reply' = NoReply
  /\ UNCHANGED <<clock, tasks, completions, tx, lock, jpc, job>>

\* UPDATE users SET reminder_enabled=? WHERE user_id=?
RemTx(p) ==
  /\ pc[p] = "rem_tx"
  /\ users' = [u \in DOMAIN users |->
                 IF u = loc[p].user
                 THEN [users[u] EXCEPT !.reminder_enabled = loc[p].arg]
                 ELSE users[u]]
  /\ lock' = Released
  /\ Finish(p, Report("toggled"))
  /\ UNCHANGED <<clock, tasks, completions, tx, jpc, job>>

\* on_button, DEL_<tid>, up to `async with DB_LOCK`.
on_button_del(p, u, tid) ==
  /\ NewCall(p, "del", u, tid, 0)
  /\ pc' = [pc EXCEPT ![p] = "del_lock"]
  /\ reply' = NoReply
  /\ UNCHANGED <<clock, users, tasks, completions, tx, lock, jpc, job>>

\* An UPDATE that flips the flag: SET active = 1 - active.
Toggled(tbl, tid, u) ==
  [i \in DOMAIN tbl |->
     IF i = tid /\ tbl[i].user_id = u
     THEN [tbl[i] EXCEPT !.active = 1 - @] ELSE tbl[i]]

\* UPDATE tasks SET active=0 WHERE id=? AND user_id=?
Deactivated(tbl, tid, u) ==
  [i \in DOMAIN tbl |->
     IF i = tid /\ tbl[i].user_id = u THEN [tbl[i] EXCEPT !.active = 0] ELSE tbl[i]]

\* The DEL section; then `await query.edit_message_text`.
DelTx(p) ==
  /\ pc[p] = "del_tx"
  /\ tasks' = Deactivated(tasks, loc[p].tid, loc[p].user)
  /\ lock' = Released
  /\ pc' = [pc EXCEPT ![p] = "del_edit"]
  /\ reply' = NoReply
  /\ UNCHANGED <<clock, users, completions, tx, loc, jpc, job>>

\* _maybe_send_empty_list_nudge up to `async with DB_LOCK`, on the committed
\* tasks tbl: return at once unless the list is empty, else take today.
NudgeEntry(p, tbl) ==
  IF ActiveCount(tbl, loc[p].user) # 0
  THEN Finish(p, TailReply(loc[p]))
  ELSE /\ pc' = [pc EXCEPT ![p] = "nudge_lock"]
       /\ loc' = [loc EXCEPT ![p].today = today_local]
       /\ reply' = NoReply

\* The edit returned; the nudge starts.
DelEdit(p) ==
  /\ pc[p] = "del_edit"
  /\ NudgeEntry(p, tasks)
  /\ UNCHANGED <<clock, users, tasks, completions, tx, lock, jpc, job>>

\* The nudge's section: read the flag; rollback and return if it is today's,
\* else stamp today and commit.  A missing users row fails the unpacking.
NudgeTx(p) ==
  /\ pc[p] = "nudge_tx"
  /\ IF loc[p].user \notin DOMAIN users
     THEN /\ Finish(p, ErrorReply("TypeError"))
          /\ lock' = ReleasedOnExit
          /\ UNCHANGED users
     ELSE IF users[loc[p].user].empty_list_notified_date = IsoDate(loc[p].today)
     THEN /\ Finish(p, TailReply(loc[p]))
          /\ lock' = ReleasedOnExit
          /\ UNCHANGED users
     ELSE /\ users' = [users EXCEPT ![loc[p].user].empty_list_notified_date =
                                      IsoDate(loc[p].today)]
          /\ lock' = Released
          /\ pc' = [pc EXCEPT ![p] = "nudge_send"]
          /\ reply' = NoReply
          /\ UNCHANGED loc
  /\ UNCHANGED <<clock, tasks, completions, tx, jpc, job>>

\* await application.bot.send_message: it returns or it raises; the raise
\* leaves _handle_completion and is caught in on_button.
NudgeSend(p) ==
  /\ pc[p] = "nudge_send"
  /\ \E sent \in BOOLEAN :
       Finish(p, IF sent THEN TailReply(loc[p]) ELSE ErrorReply("send failed"))
  /\ UNCHANGED <<clock, users, tasks, completions, tx, lock, jpc, job>>

\* ------------------------------------------------------------ completion
\* on_button, DONE_<tid>: _handle_completion takes `now`, then waits for
\* DB_LOCK.
on_button_done(p, u, tid) ==
  /\ NewCall(p, "done", u, tid, 0)
  /\ pc' = [pc EXCEPT ![p] = "done_lock"]
  /\ reply' = NoReply
  /\ UNCHANGED <<clock, users, tasks, completions, tx, lock, jpc, job>>

\* The validation without its `active=1`.
TaskOwned(tbl, tid, u) ==
  /\ tid \in DOMAIN tbl
  /\ tbl[tid].user_id = u

\* SELECT difficulty FROM tasks WHERE id=? AND user_id=? AND active=1
TaskFound(tbl, tid, u) ==
  /\ tid \in DOMAIN tbl
  /\ tbl[tid].user_id = u
  /\ tbl[tid].active = 1

\* 1) BEGIN IMMEDIATE and validate the task: rollback and raise ValueError,
\*    or keep its difficulty.
DoneValidate(p) ==
  /\ pc[p] = "done_validate"
  /\ IF TaskFound(Begin.tasks, loc[p].tid, loc[p].user)
     THEN /\ tx' = Begin
          /\ loc' = [loc EXCEPT ![p].difficulty = tasks[loc[p].tid].difficulty]
          /\ pc' = [pc EXCEPT ![p] = "done_guard"]
          /\ reply' = NoReply
          /\ UNCHANGED <<users, tasks, completions, lock>>
     ELSE /\ Rollback(Begin)
          /\ lock' = ReleasedOnExit
          /\ Finish(p, ErrorReply("Task not found or inactive"))
  /\ UNCHANGED <<clock, jpc, job>>

\* SELECT completed_at FROM completions WHERE task_id=? AND user_id=?
\* ORDER BY id DESC LIMIT 1, as the set of (at most one) ids it returns.
LastCompletion(tbl, tid, u) ==
  LET ids == {i \in DOMAIN tbl : tbl[i].task_id = tid /\ tbl[i].user_id = u}
  IN {i \in ids : \A j \in ids : j <= i}

\* (now - last_dt).total_seconds() <= 2
IsDuplicate(tbl, tid, u, now) ==
  \E i \in LastCompletion(tbl, tid, u) : now - tbl[i].completed_at <= DebounceSeconds

\* 2) Double-tap guard: rollback and return (0, False, ""), or go on.
DoneGuard(p) ==
  /\ pc[p] = "done_guard"
  /\ IF IsDuplicate(tx.completions, loc[p].tid, loc[p].user, loc[p].now)
     THEN /\ Rollback(tx)
          /\ lock' = ReleasedOnExit
          /\ Finish(p, CompletionReply([loc[p] EXCEPT !.gained = 0, !.unlocked = FALSE]))
     ELSE /\ pc' = [pc EXCEPT ![p] = "done_insert"]
          /\ reply' = NoReply
          /\ UNCHANGED <<users, tasks, completions, tx, lock, loc>>
  /\ UNCHANGED <<clock, jpc, job>>

\* The INSERT without the UPDATE that archives the task.
InsertOnly(t, tid, u, now) ==
  [t EXCEPT !.completions = Append(@, [task_id |-> tid, user_id |-> u,
                                       completed_at |-> now])]

\* 3) INSERT INTO completions, UPDATE tasks SET active=0, in the working copy.
InsertAndArchive(t, tid, u, now) ==
  [t EXCEPT !.completions = Append(@, [task_id |-> tid, user_id |-> u,
                                       completed_at |-> now]),
            !.tasks = Deactivated(@, tid, u)]

DoneInsert(p) ==
  /\ pc[p] = "done_insert"
  /\ tx' = InsertAndArchive(tx, loc[p].tid, loc[p].user, loc[p].now)
  /\ pc' = [pc EXCEPT ![p] = "done_user"]
  /\ reply' = NoReply
  /\ UNCHANGED <<clock, users, tasks, completions, lock, loc, jpc, job>>

\* The UPDATE without its WHERE clause.
PutEveryUserState(tbl, u, n) ==
  [v \in DOMAIN tbl |->
     [tbl[v] EXCEPT !.xp = n.xp, !.level = n.level,
                    !.streak_current = n.streak_current,
                    !.streak_best = n.streak_best,
                    !.last_activity_date = n.last_activity_date,
                    !.best_badge_tier = n.best_badge_tier]]

\* UPDATE users SET xp=?, level=?, streak_current=?, streak_best=?,
\* last_activity_date=?, best_badge_tier=? WHERE user_id=?
PutUserState(tbl, u, n) ==
  [v \in DOMAIN tbl |->
     IF v = u
     THEN [tbl[v] EXCEPT !.xp = n.xp, !.level = n.level,
                         !.streak_current = n.streak_current,
                         !.streak_best = n.streak_best,
                         !.last_activity_date = n.last_activity_date,
                         !.best_badge_tier = n.best_badge_tier]
     ELSE tbl[v]]

\* 4) Fetch the user row, compute XP, streak, level and badge, write them.
\*    The row exists: tasks.user_id references users.
DoneUser(p) ==
  /\ pc[p] = "done_user"
  /\ LET n == ProgressionCalculator(tx.users[loc[p].user], loc[p].difficulty,
                                    DateOf(loc[p].now))
     IN /\ tx' = [tx EXCEPT !.users = PutUserState(@, loc[p].user, n)]
        /\ loc' = [loc EXCEPT ![p].gained = n.gained, ![p].unlocked = n.unlocked,
                              ![p].streak_current = n.streak_current]
  /\ pc' = [pc EXCEPT ![p] = "done_commit"]
  /\ reply' = NoReply
  /\ UNCHANGED <<clock, users, tasks, completions, lock, jpc, job>>

\* conn.commit(), DB_LOCK released; the nudge starts.
DoneCommit(p) ==
  /\ pc[p] = "done_commit"
  /\ Commit(tx)
  /\ lock' = Released
  /\ NudgeEntry(p, tx.tasks)
  /\ UNCHANGED <<clock, jpc, job>>

\* The store raises inside a guarded section of a handler: `with conn` rolls
\* back, `async with` releases, the handler ends with the error.
TxException(p) ==
  /\ pc[p] \in SectionPcs
  /\ Rollback(IF tx.open THEN tx ELSE Begin)
  /\ lock' = ReleasedOnExit
  /\ Finish(p, ErrorReply("OperationalError"))
  /\ UNCHANGED <<clock, jpc, job>>

\* ------------------------------------------------- job_daily_empty_list
RECURSIVE UserRows(_, _)
\* SELECT user_id, chat_id, empty_list_notified_date FROM users, by rowid.
UserRows(tbl, from) ==
  IF \A v \in DOMAIN tbl : v < from THEN <<>>
  ELSE IF from \in DOMAIN tbl
  THEN <<[user_id |-> from, last_notified |-> tbl[from].empty_list_notified_date]>>
       \o UserRows(tbl, from + 1)
  ELSE UserRows(tbl, from + 1)

\* The loop up to the next user it stamps: the index of the first snapshot
\* row from i on with no active task and a flag that is not today's.
JobSeek(j, i) ==
  LET hits == {k \in i..Len(j.snap) :
                 /\ active_task_count(j.snap[k].user_id) = 0
                 /\ j.snap[k].last_notified # IsoDate(j.today)}
  IN IF hits = {} THEN Len(j.snap) + 1
     ELSE CHOOSE k \in hits : \A m \in hits : k <= m

JobGoto(j, i) ==
  IF JobSeek(j, i) > Len(j.snap)
  THEN jpc' = "idle" /\ job' = NoJob
  ELSE jpc' = "job_lock" /\ job' = [j EXCEPT !.i = JobSeek(j, i)]

JobStart ==
  /\ jpc = "idle"
  /\ JobGoto([today |-> today_local, snap |-> UserRows(users, 1), i |-> 0], 1)
  /\ reply' = NoReply
  /\ UNCHANGED <<clock, users, tasks, completions, tx, lock, pc, loc>>

JobAcquire ==
  /\ jpc = "job_lock"
  /\ CanAcquire
  /\ lock' = TRUE
  /\ jpc' = "job_tx"
  /\ reply' = NoReply
  /\ UNCHANGED <<clock, users, tasks, completions, tx, pc, loc, job>>

\* UPDATE users SET empty_list_notified_date=? WHERE user_id=?
JobTx ==
  /\ jpc = "job_tx"
  /\ users' = [users EXCEPT ![job.snap[job.i].user_id].empty_list_notified_date =
                              IsoDate(job.today)]
  /\ lock' = Released
  /\ jpc' = "job_send"
  /\ reply' = NoReply
  /\ UNCHANGED <<clock, tasks, completions, tx, pc, loc, job>>

\* The store raises in the job's section: caught in the loop, next user.
JobException ==
  /\ jpc = "job_tx"
  /\ lock' = ReleasedOnExit
  /\ JobGoto(job, job.i + 1)
  /\ reply' = NoReply
  /\ UNCHANGED <<clock, users, tasks, completions, tx, pc, loc>>

\* A loop that a failed send leaves.
AbortOnFailure(j, sent) == IF sent THEN j.i + 1 ELSE Len(j.snap) + 1

\* try/except around the loop body: the next user, whether the send
\* returned or raised.
AfterSend(j, sent) == j.i + 1

\* await send_message returned or raised (caught, logged): next user.
JobSend ==
  /\ jpc = "job_send"
  /\ \E sent \in BOOLEAN :
       /\ JobGoto(job, AfterSend(job, sent))
       /\ reply' = IF sent THEN NoReply ELSE Logged("daily_empty send fail")
  /\ UNCHANGED <<clock, users, tasks, completions, tx, lock, pc, loc>>

\* ----------------------------------------------------- job_daily_streak
\* The two daily jobs run at 10:00 and at 20:00: one job's position and
\* locals stand for whichever of them is running.
RECURSIVE ReminderRows(_, _)
\* SELECT user_id, chat_id FROM users WHERE reminder_enabled=1, by rowid.
ReminderRows(tbl, from) ==
  IF \A v \in DOMAIN tbl : v < from THEN <<>>
  ELSE IF from \in DOMAIN tbl /\ tbl[from].reminder_enabled = 1
  THEN <<[user_id |-> from]>> \o ReminderRows(tbl, from + 1)
  ELSE ReminderRows(tbl, from + 1)

\* A check for a completion on any day.
HadAnyCompletion(u) ==
  \E i \in DOMAIN completions : completions[i].user_id = u

\* SELECT 1 FROM completions WHERE user_id=? AND completed_at>=? AND
\* completed_at<?, the window being today's local day.
had_completion_today(u) ==
  \E i \in DOMAIN completions :
    /\ completions[i].user_id = u
    /\ completions[i].completed_at >= today_local * SecondsPerDay
    /\ completions[i].completed_at < (today_local + 1) * SecondsPerDay

\* The loop up to its next send: the index of the first snapshot row from
\* i on whose user has no completion today.
StreakSeek(j, i) ==
  LET hits == {k \in i..Len(j.snap) : ~had_completion_today(j.snap[k].user_id)}
  IN IF hits = {} THEN Len(j.snap) + 1
     ELSE CHOOSE k \in hits : \A m \in hits : k <= m

StreakGoto(j, i) ==
  IF StreakSeek(j, i) > Len(j.snap)
  THEN jpc' = "idle" /\ job' = NoJob
  ELSE jpc' = "streak_send" /\ job' = [j EXCEPT !.i = StreakSeek(j, i)]

StreakStart ==
  /\ jpc = "idle"
  /\ StreakGoto([today |-> today_local, snap |-> ReminderRows(users, 1), i |-> 0], 1)
  /\ reply' = NoReply
  /\ UNCHANGED <<clock, users, tasks, completions, tx, lock, pc, loc>>

\* await send_message returned or raised (caught, logged): next user.
StreakSend ==
  /\ jpc = "streak_send"
  /\ \E sent \in BOOLEAN :
       /\ StreakGoto(job, job.i + 1)
       /\ reply' = IF sent THEN NoReply ELSE Logged("daily_streak send fail")
  /\ UNCHANGED <<clock, users, tasks, completions, tx, lock, pc, loc>>

\* -------------------------------------------------------- specifications
\* The next-state relation by feature, over the slots P that run handlers,
\* the users U that send updates, the task ids T their buttons carry and
\* the difficulty texts D they type.
Ticks == TickSecond \/ TickDay

Accounts(U) == \E u \in U, name \in Usernames : start(u, name)

AddTask(P, U, D) ==
  \/ \E p \in P, u \in U, text \in D : addtask_diff(p, u, text)
  \/ \E p \in P : AddTx(p)

Delete(P, U, T) ==
  \/ \E p \in P, u \in U, tid \in T : on_button_del(p, u, tid)
  \/ \E p \in P : DelTx(p)
  \/ \E p \in P : DelEdit(p)

Complete(P, U, T) ==
  \/ \E p \in P, u \in U, tid \in T : on_button_done(p, u, tid)
  \/ \E p \in P : DoneValidate(p)
  \/ \E p \in P : DoneGuard(p)
  \/ \E p \in P : DoneInsert(p)
  \/ \E p \in P : DoneUser(p)
  \/ \E p \in P : DoneCommit(p)

Nudge(P) ==
  \/ \E p \in P : NudgeTx(p)
  \/ \E p \in P : NudgeSend(p)

Serializer(P) ==
  \/ \E p \in P : Acquire(p)
  \/ \E p \in P : TxException(p)

Reminder(P, U) ==
  \/ \E p \in P, u \in U, name \in Usernames, toggle \in {"on", "off"} :
       reminder_cmd(p, u, name, toggle)
  \/ \E p \in P : RemTx(p)

EmptyListJob == JobStart \/ JobAcquire \/ JobTx \/ JobException \/ JobSend

StreakJob == StreakStart \/ StreakSend

\* The bot from an empty database, one update handled at a time (the
\* Application's default), all users and tasks, observed at midnights.
Next ==
  \/ TickDay
  \/ Accounts(UserIds)
  \/ AddTask({1}, UserIds, DiffTexts)
  \/ Delete({1}, UserIds, TaskIds)
  \/ Complete({1}, UserIds, TaskIds)
  \/ Nudge({1})
  \/ Serializer({1})

Spec == Init /\ [][Next]_vars

Idle ==
  /\ tx = NoTx
  /\ lock = FALSE
  /\ pc = [p \in Slots |-> "idle"]
  /\ loc = [p \in Slots |-> NoLoc]
  /\ reply = NoReply
  /\ jpc = "idle"
  /\ job = NoJob

\* A database file of an earlier run: both users known, MaxTasks open tasks.
SeededTasks ==
  [1..MaxTasks -> [user_id : UserIds, difficulty : {1, 3}, active : {1}]]

InitSeeded ==
  /\ clock = 0
  /\ users = [u \in UserIds |-> NewUserRow(u, "ann")]
  /\ tasks \in SeededTasks
  /\ completions = <<>>
  /\ Idle

\* Completions handled concurrently, in every slot, within one day.
NextConcurrent ==
  \/ TickSecond
  \/ Complete(Slots, UserIds, TaskIds)
  \/ Nudge(Slots)
  \/ Serializer(Slots)

SpecConcurrent == InitSeeded /\ [][NextConcurrent]_vars

\* A database file of an earlier run: user 1 known, no task yet.
InitSections ==
  /\ clock = 0
  /\ users = (1 :> NewUserRow(1, "ann"))
  /\ tasks = <<>>
  /\ completions = <<>>
  /\ Idle

\* Every DB_LOCK section, from every slot and the job, for user 1.
NextSections ==
  \/ AddTask(Slots, {1}, {"2"})
  \/ Delete(Slots, {1}, {1})
  \/ Complete(Slots, {1}, {1})
  \/ Nudge(Slots)
  \/ Serializer(Slots)
  \/ Reminder(Slots, {1})
  \/ EmptyListJob

SpecSections == InitSections /\ [][NextSections]_vars

\* A guarded section has no await: once entered it runs to its end.
SectionStep(p) ==
  \/ AddTx(p) \/ RemTx(p) \/ DelTx(p) \/ NudgeTx(p)
  \/ DoneValidate(p) \/ DoneGuard(p) \/ DoneInsert(p) \/ DoneUser(p)
  \/ DoneCommit(p) \/ TxException(p)

\* The event loop runs every ready coroutine, and asyncio.Lock wakes its
\* waiters first come, first served: a waiter is not passed over forever.
FairSections ==
  /\ SpecSections
  /\ \A p \in Slots : WF_vars(SectionStep(p))
  /\ \A p \in Slots : SF_vars(Acquire(p))
  /\ WF_vars(JobTx \/ JobException)
  /\ SF_vars(JobAcquire)

\* A database file after a longer history: user 1 with a streak, a best
\* streak, the XP they took at least, MaxTasks open tasks; the rows of the
\* archived tasks and their completions, which no step reads, left out.
PriorStreaks == {2, 9, 10, 14, 15}
PriorBest == 20

\* The least XP a streak of b days earns: b completions of difficulty 1.
XpFloor(b) ==
  IF b <= StreakBonusCap
  THEN BasePoints * b + b * (b + 1)
  ELSE BasePoints * b + StreakBonusCap * (StreakBonusCap + 1)
       + 2 * StreakBonusCap * (b - StreakBonusCap)

PriorRow(c, b, last, extra) ==
  LET xp == XpFloor(b) + (IF c < b THEN XpFloor(c) ELSE 0) + extra
  IN [NewUserRow(1, "ann") EXCEPT
        !.xp = xp, !.level = 1 + (xp \div XpPerLevel),
        !.streak_current = c, !.streak_best = b,
        !.best_badge_tier = badge_tier_for_streak(b),
        !.last_activity_date = last]

PriorRows ==
  {NewUserRow(1, "ann")} \cup
  {PriorRow(c, b, IsoDate(d), extra) :
     c \in PriorStreaks, b \in {PriorBest}, d \in {0, -1, -3}, extra \in {0, 20}}
  \cup
  {PriorRow(c, c, IsoDate(d), extra) :
     c \in PriorStreaks, d \in {0, -1, -3}, extra \in {0, 20}}

InitRestart ==
  /\ clock = 0
  /\ \E row \in PriorRows : users = (1 :> row)
  /\ tasks \in [1..MaxTasks -> [user_id : {1}, difficulty : {1, 2, 3}, active : {1}]]
  /\ completions = <<>>
  /\ Idle

NextRestart ==
  \/ TickDay
  \/ Complete({1}, {1}, TaskIds)
  \/ Nudge({1})
  \/ Serializer({1})

SpecRestart == InitRestart /\ [][NextRestart]_vars

\* ------------------------------------------------------------ properties
Progression(row) ==
  <<row.xp, row.level, row.streak_current, row.streak_best,
    row.best_badge_tier, row.last_activity_date>>

\* The step with which the completion in slot p commits.
Commits(p) ==
  /\ pc[p] = "done_commit"
  /\ pc'[p] # "done_commit"
  /\ reply'.kind # "error"

\* The completion in slot p leaves its transaction by its own code, not by
\* a failure of the store.
Concludes(p) ==
  /\ pc[p] \in CompletionPcs
  /\ pc'[p] \notin CompletionPcs
  /\ reply'.msg # "OperationalError"

\* The completion in slot p follows a recorded completion of the same task
\* by the same user by at most 2 seconds.
SecondTap(p) ==
  \E i \in DOMAIN completions :
    /\ completions[i].task_id = loc[p].tid
    /\ completions[i].user_id = loc[p].user
    /\ loc[p].now - completions[i].completed_at <= 2

\* C1: the second of two completions of one task by one user within 2
\* seconds persists no record, awards no XP and returns the no-op result
\* (xpGained = 0, no badge), not an error.
SecondTapIsNoOp ==
  [][\A p \in Slots :
       Concludes(p) /\ SecondTap(p)
       => /\ store' = store
          /\ reply'.kind = "noop"
          /\ reply'.gained = 0
          /\ reply'.badge = ""]_vars

\* C2: a completion is all-or-nothing.  A step that changes the committed
\* completions appends exactly one record, archives exactly that record's
\* task, which was active, and updates the progression of exactly that
\* record's user; no step changes a user's progression, and no step of a
\* completion archives a task, without appending a record; and a completion
\* that ends before its commit, however it fails, leaves the committed
\* store as it was.
CompletionAllOrNothing ==
  [][/\ completions' # completions
        => LET r == completions'[Len(completions')]
           IN /\ completions' = Append(completions, r)
              /\ r.task_id \in DOMAIN tasks
              /\ r.user_id \in DOMAIN users
              /\ tasks[r.task_id].active = 1
              /\ tasks[r.task_id].user_id = r.user_id
              /\ tasks' = [tasks EXCEPT ![r.task_id].active = 0]
              /\ DOMAIN users' = DOMAIN users
              /\ Progression(users'[r.user_id]) # Progression(users[r.user_id])
              /\ users'[r.user_id].xp > users[r.user_id].xp
              /\ users'[r.user_id].last_activity_date = IsoDate(DateOf(r.completed_at))
              /\ \A u \in DOMAIN users \ {r.user_id} : users'[u] = users[u]
     /\ (\E u \in DOMAIN users :
           Progression(users'[u]) # Progression(users[u]))
        => completions' # completions
     /\ \A p \in Slots :
          /\ pc[p] \in CompletionPcs /\ pc'[p] # pc[p] /\ tasks' # tasks
             => completions' # completions
          /\ pc[p] \in CompletionPcs /\ pc'[p] # pc[p] /\ ~Commits(p)
             => store' = store]_vars

\* A completion failed after its INSERT and UPDATE ran, next to a committed
\* one: the failed one's task still active and without a record.
FailedAfterInsert ==
  /\ reply.kind = "error"
  /\ reply.at \in {"done_user", "done_commit"}
  /\ completions # <<>>
  /\ \E t \in DOMAIN tasks :
       /\ tasks[t].active = 1
       /\ \A i \in DOMAIN completions : completions[i].task_id # t

\* The task of the completion in slot p does not exist, is another user's
\* or is inactive.
NotCompletable(p) ==
  \/ loc[p].tid \notin DOMAIN tasks
  \/ tasks[loc[p].tid].user_id # loc[p].user
  \/ tasks[loc[p].tid].active = 0

\* C3: completing a task that does not exist, belongs to another user or is
\* inactive fails with the task-not-found ValueError and changes nothing in
\* users, tasks or completions.
TaskNotFoundChangesNothing ==
  [][\A p \in Slots :
       pc[p] = "done_validate" /\ NotCompletable(p) /\ pc'[p] # pc[p]
       => /\ pc'[p] = "idle"
          /\ reply'.kind = "error"
          /\ reply'.msg # "OperationalError"
             => reply'.msg = "Task not found or inactive"
          /\ store' = store]_vars

\* Every existing task is archived, one by a completion, and a further
\* completion was refused.
RefusedInactive ==
  /\ reply.kind = "error"
  /\ reply.msg = "Task not found or inactive"
  /\ Len(tasks) = MaxTasks
  /\ \A t \in DOMAIN tasks : tasks[t].active = 0
  /\ completions # <<>>

InSection == {p \in Slots : pc[p] \in SectionPcs}

SectionsRunning == Cardinality(InSection) + (IF jpc = "job_tx" THEN 1 ELSE 0)

\* C4: at most one of the DB_LOCK-guarded sections (add, delete, complete,
\* reminder toggle, instant and daily empty-list stamp) is executing, and
\* the open transaction is that section's.
MutualExclusion ==
  /\ SectionsRunning <= 1
  /\ tx.open => \E p \in Slots : pc[p] \in CompletionPcs

\* A completion is between its INSERT and its commit while another handler
\* and the daily job wait for DB_LOCK.
ContendedCompletion ==
  /\ \E p \in Slots : pc[p] \in {"done_user", "done_commit"}
  /\ \E q \in Slots : pc[q] \in WaitPcs
  /\ jpc = "job_lock"

\* C5: every step that changes users, tasks or completions is a step of the
\* coroutine that holds DB_LOCK, get_or_create_user's writes included.
WritesByLockHolder ==
  [][store' # store
     => /\ lock
        /\ \/ \E p \in Slots : pc[p] \in SectionPcs /\ pc'[p] # pc[p]
           \/ jpc = "job_tx" /\ jpc' # jpc]_vars

\* C6: DB_LOCK is released on every exit path of a guarded section: the
\* lock is free whenever no section is executing, and every handler and the
\* job waiting for it eventually enters its section.
ReleasedAndAcquired ==
  /\ [](SectionsRunning = 0 => ~lock)
  /\ \A p \in Slots : (pc[p] \in WaitPcs) ~> (pc[p] \in SectionPcs)
  /\ (jpc = "job_lock") ~> (jpc = "job_tx")

\* A section was left by an exception, the lock is free and a caller waits.
ReleasedAfterException ==
  /\ reply.kind = "error"
  /\ reply.at \in SectionPcs
  /\ ~lock
  /\ \E q \in Slots : pc[q] \in WaitPcs

RecordsOf(u) == {i \in DOMAIN completions : completions[i].user_id = u}

\* The progression of a new user after one completion of a task of
\* difficulty d on day `today`, alone.
AloneProgression(d, today) == <<10 * d + 2, 1, 1, 1, 1, IsoDate(today)>>

\* C7: whatever the other user's completions and their order, a user who
\* completed one task has the progression that completion alone produces,
\* a user who completed none has none, and the tasks archived are those
\* with a record: the store does not depend on the submission order.
ConcurrentUsersIsolated ==
  /\ \A u \in DOMAIN users :
       /\ RecordsOf(u) = {} => Progression(users[u]) = Progression(NewUserRow(u, "ann"))
       /\ \A i \in RecordsOf(u) :
            RecordsOf(u) = {i}
            => Progression(users[u]) =
                 AloneProgression(tasks[completions[i].task_id].difficulty,
                                  DateOf(completions[i].completed_at))
  /\ \A t \in DOMAIN tasks :
       tasks[t].active = 0 <=> \E i \in DOMAIN completions : completions[i].task_id = t

\* Two users completed a task each, the second while the first held DB_LOCK.
BothCommitted ==
  /\ Len(completions) = 2
  /\ completions[1].user_id # completions[2].user_id
  /\ \E p \in Slots :
       /\ loc[p].waited
       /\ pc[p] \in {"nudge_lock", "nudge_tx", "nudge_send"}
       /\ loc[p].user = completions[2].user_id

\* C8: a completion committed on day `today` leaves streak_current as it
\* was when last_activity_date is today (and still adds XP), adds 1 when it
\* is the day before, sets it to 1 otherwise (no prior activity or any other
\* date), and sets last_activity_date to today.
StreakUpdateRule ==
  [][\A p \in Slots :
       Commits(p)
       => LET u == loc[p].user
              last == users[u].last_activity_date
          IN /\ last = IsoDate(today_local)
                => /\ users'[u].streak_current = users[u].streak_current
                   /\ users'[u].xp > users[u].xp
             /\ last = IsoDate(today_local - 1)
                => users'[u].streak_current = users[u].streak_current + 1
             /\ last \notin {IsoDate(today_local), IsoDate(today_local - 1)}
                => users'[u].streak_current = 1
             /\ users'[u].last_activity_date = IsoDate(today_local)]_vars

\* Two completions on one day, the second leaving the streak of 10.
SameDayTwice ==
  /\ Len(completions) = 2
  /\ DateOf(completions[1].completed_at) = DateOf(completions[2].completed_at)
  /\ users[1].streak_current = 10

\* C9, as written: the new streak is the prior streak + 1 exactly when
\* last_activity_date is the day before today, and 1 in every other case.
StreakIncrementsOnlyAfterYesterday ==
  [][\A p \in Slots :
       Commits(p)
       => LET u == loc[p].user
              last == users[u].last_activity_date
          IN /\ users'[u].streak_current = users[u].streak_current + 1
                <=> last = IsoDate(today_local - 1)
             /\ last # IsoDate(today_local - 1)
                => users'[u].streak_current = 1]_vars

\* C9, amended: the new streak is the prior streak + 1 exactly when
\* last_activity_date is the day before today or there is no prior activity
\* (prior streak 0); it is the prior streak when last_activity_date is
\* today; it is 1 in every other case.
StreakIncrementRule ==
  [][\A p \in Slots :
       Commits(p)
       => LET u == loc[p].user
              last == users[u].last_activity_date
          IN /\ users'[u].streak_current = users[u].streak_current + 1
                <=> (last = IsoDate(today_local - 1) \/ last = <<>>)
             /\ last = <<>> => users[u].streak_current = 0
             /\ last = IsoDate(today_local)
                => users'[u].streak_current = users[u].streak_current
             /\ last \notin {<<>>, IsoDate(today_local), IsoDate(today_local - 1)}
                => users'[u].streak_current = 1]_vars

\* A first-ever completion: streak 1 from 0, with no day before.
FirstEverCompletion ==
  /\ Len(completions) = 1
  /\ users[1].streak_current = 1
  /\ users[1].streak_best = 1
  /\ users[1].xp <= 32

\* C10: a committed completion adds 10 * d + 2 * min(newStreak, 10) to the
\* user's xp, d the task's difficulty clamped to 1..3 and newStreak the
\* streak_current it wrote, and returns that amount as the XP gained.
XpGainedFormula ==
  [][\A p \in Slots :
       Commits(p)
       => LET u == loc[p].user
              d == Max(1, Min(tasks[loc[p].tid].difficulty, 3))
              g == 10 * d + 2 * Min(users'[u].streak_current, 10)
          IN /\ users'[u].xp = users[u].xp + g
             /\ loc[p].gained = g
             /\ pc'[p] = "idle" => reply'.gained = g]_vars

\* Difficulty 3 at streak 15 gave 50.
FiftyAtStreakFifteen ==
  /\ reply.kind = "ok"
  /\ reply.gained = 50
  /\ users[1].streak_current = 15
  /\ \E i \in DOMAIN completions : tasks[completions[i].task_id].difficulty = 3

\* C11: for every user, level = 1 + (xp div 100), from the new row (xp 0,
\* level 1) through every completion.
LevelFollowsXp ==
  \A u \in DOMAIN users : users[u].level = 1 + (users[u].xp \div 100)

\* A completion took a user from level 1 to level 2.
LevelUp ==
  /\ completions # <<>>
  /\ users[1].level = 2
  /\ users[1].xp >= 100

\* C12: streak_best >= streak_current for every user in every state, and no
\* step lowers a user's streak_best, a completion that resets streak_current
\* to 1 included.
BestStreakBoundsCurrent ==
  /\ [](\A u \in DOMAIN users : users[u].streak_best >= users[u].streak_current)
  /\ [][\A u \in DOMAIN users :
          /\ u \in DOMAIN users'
          /\ users'[u].streak_best >= users[u].streak_best]_vars

\* A completion reset the streak to 1 below a longer best streak.
ResetBelowBest ==
  /\ completions # <<>>
  /\ users[1].streak_current = 1
  /\ users[1].streak_best > 1

Thresholds == {1, 3, 7, 14, 21, 30, 50, 75, 100, 150, 200, 300}

\* The largest threshold <= streak, 0 when there is none.
LargestThreshold(streak) ==
  LET below == {t \in Thresholds : t <= streak}
  IN IF below = {} THEN 0 ELSE CHOOSE t \in below : \A s \in below : s <= t

\* The name BADGE_TIERS binds to threshold t.
NameBoundTo(t) ==
  BADGE_TIERS[CHOOSE i \in DOMAIN BADGE_TIERS : BADGE_TIERS[i][1] = t][2]

\* C13: best_badge_tier is 0 or a threshold and no step lowers it; a
\* committing completion unlocks a badge exactly when the largest threshold
\* <= the new streak_current exceeds the prior best_badge_tier, and then
\* best_badge_tier becomes that threshold and the badge name returned is the
\* one bound to it; otherwise best_badge_tier is unchanged and no badge name
\* is returned.
BadgeUnlockRule ==
  /\ [](\A u \in DOMAIN users : users[u].best_badge_tier \in Thresholds \cup {0})
  /\ [][\A u \in DOMAIN users :
          /\ u \in DOMAIN users'
          /\ users'[u].best_badge_tier >= users[u].best_badge_tier]_vars
  /\ [][\A p \in Slots :
          Commits(p)
          => LET u == loc[p].user
                 tier == LargestThreshold(users'[u].streak_current)
                 returned == CompletionReply(loc[p])
             IN /\ loc[p].unlocked <=> tier > users[u].best_badge_tier
                /\ returned.unlocked = loc[p].unlocked
                /\ pc'[p] = "idle" => reply'.badge = returned.badge
                /\ IF loc[p].unlocked
                   THEN /\ users'[u].best_badge_tier = tier
                        /\ returned.badge = NameBoundTo(tier)
                   ELSE /\ users'[u].best_badge_tier = users[u].best_badge_tier
                        /\ returned.badge = ""]_vars

\* The third consecutive day unlocked Meerkat.
MeerkatUnlocked ==
  /\ reply.kind = "ok"
  /\ reply.unlocked
  /\ reply.badge = "Meerkat"
  /\ users[1].streak_current = 3
  /\ users[1].best_badge_tier = 3

\* The usernames user 1 goes by in turn.
Renames == {"ann", "bob"}

\* Every operation of the bot for user 1: the sections, the username
\* refresh and both daily jobs.
NextFrame ==
  \/ NextSections
  \/ StreakJob
  \/ \E name \in Renames : start(1, name)

SpecFrame == InitSections /\ [][NextFrame]_vars

\* C14: a user's progression fields change only in the commit of that
\* user's completion: adding and deleting a task, the reminder toggle, the
\* refresh of the user row, the instant nudge and both daily jobs leave them
\* as they are; and the reminder toggle changes nothing but
\* reminder_enabled of the calling user.
ProgressionFrame ==
  [][/\ \A u \in DOMAIN users :
          /\ u \in DOMAIN users'
          /\ Progression(users'[u]) # Progression(users[u])
             => \E p \in Slots : Commits(p) /\ loc[p].user = u
     /\ \A p \in Slots :
          pc[p] = "rem_tx" /\ pc'[p] # pc[p]
          => /\ tasks' = tasks
             /\ completions' = completions
             /\ \E v \in {0, 1} :
                  users' = [users EXCEPT ![loc[p].user].reminder_enabled = v]]_vars

\* A user with XP and a streak, renamed, reminders off, stamped by a nudge.
ProgressionKept ==
  /\ users[1].xp > 0
  /\ users[1].streak_current = 1
  /\ users[1].username = "bob"
  /\ users[1].reminder_enabled = 0
  /\ users[1].empty_list_notified_date # <<>>

\* C15: no step removes a task or makes an inactive task active; a task
\* goes from active to inactive only in the section of a deletion or in the
\* commit of a completion of that task by its user.
ArchivedForGood ==
  [][\A t \in DOMAIN tasks :
       /\ t \in DOMAIN tasks'
       /\ tasks[t].active = 0 => tasks'[t].active = 0
       /\ tasks[t].active = 1 /\ tasks'[t].active = 0
          => \E p \in Slots :
               /\ loc[p].tid = t
               /\ loc[p].user = tasks[t].user_id
               /\ \/ pc[p] = "del_tx" /\ pc'[p] = "del_edit"
                  \/ Commits(p)]_vars

\* Task 1 was completed, a delete of it went through its section, and a
\* task added later is active.
ArchivedTaskDeletedAgain ==
  /\ Len(tasks) = 2
  /\ tasks[1].active = 0
  /\ tasks[2].active = 1
  /\ completions # <<>>
  /\ \E p \in Slots : pc[p] = "del_edit" /\ loc[p].tid = 1

\* The coroutine in slot p is between two awaits that suspend it: asyncio
\* runs it on, and no other coroutine, up to the next such await.  Taking a
\* free DB_LOCK does not suspend.
HandlerRunning(p) == pc[p] \in WaitPcs \cup SectionPcs

JobRunning == jpc \in {"job_lock", "job_tx"}

Quiet(p) == ~JobRunning /\ \A q \in Slots \ {p} : ~HandlerRunning(q)

\* A database file of an earlier run: two users, user 1 with no task, user
\* 2 with one.
InitEventLoop ==
  /\ clock = 0
  /\ users = [u \in UserIds |-> NewUserRow(u, "ann")]
  /\ tasks = <<[user_id |-> 2, difficulty |-> 1, active |-> 1]>>
  /\ completions = <<>>
  /\ Idle

\* One update handled at a time next to the daily empty-list job, every
\* coroutine run from one suspension to the next without interruption.
NextEventLoop ==
  \/ TickDay
  \/ /\ Suspended
     /\ \E u \in UserIds, tid \in TaskIds :
          on_button_del(1, u, tid) \/ on_button_done(1, u, tid)
  \/ /\ Quiet(1)
     /\ \/ Acquire(1)
        \/ DelTx(1) \/ DelEdit(1)
        \/ DoneValidate(1) \/ DoneGuard(1) \/ DoneInsert(1) \/ DoneUser(1)
        \/ DoneCommit(1)
        \/ NudgeTx(1) \/ NudgeSend(1)
  \/ /\ \A p \in Slots : ~HandlerRunning(p)
     /\ EmptyListJob

SpecEventLoop == InitEventLoop /\ [][NextEventLoop]_vars

\* This step stamps user u as notified and starts the send of the
\* empty-list notification to them, from the instant nudge or from the job.
NotificationSent(u) ==
  \/ \E p \in Slots :
       pc[p] = "nudge_tx" /\ pc'[p] = "nudge_send" /\ loc[p].user = u
  \/ jpc = "job_tx" /\ jpc' = "job_send" /\ job.snap[job.i].user_id = u

\* C16: at most one empty-list notification per user and calendar day, from
\* the instant nudge and the daily job together: none is sent to a user
\* whose empty_list_notified_date says one was sent today.
OneEmptyListNotificationPerDay ==
  [][\A u \in DOMAIN users :
       NotificationSent(u)
       => users[u].empty_list_notified_date # IsoDate(today_local)]_vars

\* C17: when the send of the empty-list notification after a committed
\* completion ends, failed or not, the handler gets the committed
\* completion's (gained, unlocked, badge_name) and not an error.
NudgeFailureNotPropagated ==
  [][\A p \in Slots :
       pc[p] = "nudge_send" /\ loc[p].cmd = "done" /\ pc'[p] = "idle"
       => /\ reply'.kind = "ok"
          /\ reply'.gained = loc[p].gained
          /\ reply'.unlocked = loc[p].unlocked]_vars

\* A database file of an earlier run: two users, reminders on or off, one
\* open task each.
InitJobs ==
  /\ clock = 0
  /\ users \in {[u \in UserIds |-> [NewUserRow(u, "ann") EXCEPT !.reminder_enabled = r[u]]] :
                  r \in [UserIds -> {0, 1}]}
  /\ tasks = <<[user_id |-> 1, difficulty |-> 1, active |-> 1],
               [user_id |-> 2, difficulty |-> 1, active |-> 1]>>
  /\ completions = <<>>
  /\ Idle

\* Both daily jobs next to completions, one update handled at a time.
NextJobs ==
  \/ TickDay
  \/ Complete({1}, UserIds, {1, 2})
  \/ Nudge({1})
  \/ Serializer({1})
  \/ EmptyListJob
  \/ StreakJob

SpecJobs == InitJobs /\ [][NextJobs]_vars

\* Every await of a job returns or raises, a section runs to its end, and
\* the job waiting for DB_LOCK is not passed over forever.
FairJobs ==
  /\ SpecJobs
  /\ WF_vars(SectionStep(1))
  /\ WF_vars(JobTx \/ JobException)
  /\ SF_vars(JobAcquire)
  /\ WF_vars(JobSend)
  /\ WF_vars(StreakSend)

\* The snapshot rows after row i whose user the empty-list job still has
\* to stamp: no active task, snapshot flag not today's.
EmptyListDue(i) ==
  {k \in (i + 1)..Len(job.snap) :
     /\ \A t \in DOMAIN tasks :
          tasks[t].user_id = job.snap[k].user_id => tasks[t].active = 0
     /\ job.snap[k].last_notified # IsoDate(job.today)}

CompletedToday(u) ==
  \E i \in DOMAIN completions :
    /\ completions[i].user_id = u
    /\ DateOf(completions[i].completed_at) = DateOf(clock)

\* The snapshot rows after row i whose user the streak job still has to
\* remind: no completion today.
StreakDue(i) ==
  {k \in (i + 1)..Len(job.snap) : ~CompletedToday(job.snap[k].user_id)}

Least(S) == CHOOSE k \in S : \A m \in S : k <= m

\* C18: in both daily jobs a failure for one user does not end the batch.
\* When the send to a user returns or raises, or that user's section
\* raises, the job goes on to the next user of its snapshot who satisfies
\* its condition, and ends only when there is none; and every run ends.
JobFailuresIsolated ==
  /\ [][/\ (jpc = "job_send" \/ (jpc = "job_tx" /\ jpc' # "job_send")) /\ jpc' # jpc
           => IF EmptyListDue(job.i) = {}
              THEN jpc' = "idle"
              ELSE jpc' = "job_lock" /\ job'.i = Least(EmptyListDue(job.i))
        /\ jpc = "streak_send" /\ <<jpc, job>>' # <<jpc, job>>
           => IF StreakDue(job.i) = {}
              THEN jpc' = "idle"
              ELSE jpc' = "streak_send" /\ job'.i = Least(StreakDue(job.i))]_vars
  /\ (jpc # "idle") ~> (jpc = "idle")

\* The empty-list job's send to its first user failed and the job is at its
\* second.
SecondUserAfterFailure ==
  /\ reply.kind = "logged"
  /\ reply.msg = "daily_empty send fail"
  /\ jpc = "job_lock"
  /\ job.i = 2

\* C19: the streak job's snapshot holds exactly the users with reminders
\* on; it sends to a user of the snapshot exactly when that user has no
\* completion today at the moment it reaches them, passing over those who
\* have one; and no step of the job changes users, tasks or completions.
StreakJobNotifiesIdleUsers ==
  [][/\ jpc = "idle" /\ jpc' = "streak_send"
        => /\ {job'.snap[k].user_id : k \in DOMAIN job'.snap}
                = {u \in DOMAIN users : users[u].reminder_enabled = 1}
           /\ \A k, m \in DOMAIN job'.snap :
                k # m => job'.snap[k].user_id # job'.snap[m].user_id
     /\ jpc' = "streak_send" /\ <<jpc, job>>' # <<jpc, job>>
        => LET from == IF jpc = "idle" THEN 1 ELSE job.i + 1
           IN /\ job'.i \in from..Len(job'.snap)
              /\ ~CompletedToday(job'.snap[job'.i].user_id)
              /\ \A k \in from..(job'.i - 1) : CompletedToday(job'.snap[k].user_id)
              /\ store' = store
     /\ jpc = "streak_send" /\ jpc' = "idle"
        => /\ \A k \in (job.i + 1)..Len(job.snap) : CompletedToday(job.snap[k].user_id)
           /\ store' = store]_vars

\* On day 1 the job passed over user 1, who completed a task today, and
\* sends to user 2, whose completion is yesterday's.
RemindedAfterYesterday ==
  /\ jpc = "streak_send"
  /\ Len(job.snap) = 2
  /\ job.i = 2
  /\ job.snap[2].user_id = 2
  /\ CompletedToday(1)
  /\ ~CompletedToday(2)
  /\ \E i \in DOMAIN completions : completions[i].user_id = 2

\* A new user with MaxTasks open tasks, the day before day 0.
InitHistory ==
  /\ clock = -SecondsPerDay
  /\ users = (1 :> NewUserRow(1, "ann"))
  /\ tasks \in [1..MaxTasks -> [user_id : {1}, difficulty : {1}, active : {1}]]
  /\ completions = <<>>
  /\ Idle

SpecHistory == InitHistory /\ [][NextRestart]_vars

\* The calendar days on which user u has a completion record.
ActiveDays(u) ==
  {DateOf(completions[i].completed_at) : i \in RecordsOf(u)}

\* The number of consecutive days, ending at day `last`, all in ActiveDays(u).
ConsecutiveDays(u, last) ==
  Cardinality({n \in 1..(MaxDay + 2) :
                 \A k \in 0..(n - 1) : (last - k) \in ActiveDays(u)})

\* C20: a user's streak_current is the number of consecutive calendar days,
\* ending at last_activity_date, each with a completion record of the
\* user; it is 0 exactly when the user has no completion record, and
\* last_activity_date is then unset.
StreakCountsConsecutiveDays ==
  \A u \in DOMAIN users :
    /\ users[u].streak_current = 0 <=> RecordsOf(u) = {}
    /\ users[u].last_activity_date = <<>> <=> RecordsOf(u) = {}
    /\ RecordsOf(u) # {}
       => /\ FromIsoDate(users[u].last_activity_date) \in ActiveDays(u)
          /\ \A d \in ActiveDays(u) : d <= FromIsoDate(users[u].last_activity_date)
          /\ users[u].streak_current =
               ConsecutiveDays(u, FromIsoDate(users[u].last_activity_date))

\* Two completions with a day without one between them: the streak is 1.
StreakAfterGap ==
  /\ Len(completions) = 2
  /\ DateOf(completions[2].completed_at) = DateOf(completions[1].completed_at) + 2
  /\ users[1].streak_current = 1

\* The CompletionRecords of task t in the table tbl.
CompletionsOf(tbl, t) == {i \in DOMAIN tbl : tbl[i].task_id = t}

\* The completion in slot p is past its validation, before its insert.
PassedValidation(p) == pc[p] \in {"done_guard", "done_insert"}

\* C21: in every reachable state each task has at most one CompletionRecord
\* and every task with a CompletionRecord is inactive; so a completion that
\* passed the validation (task active and owned) finds no earlier
\* CompletionRecord of its task.
AtMostOneCompletionPerTask ==
  /\ \A t \in DOMAIN tasks : Cardinality(CompletionsOf(completions, t)) <= 1
  /\ \A i \in DOMAIN completions :
       /\ completions[i].task_id \in DOMAIN tasks
       /\ tasks[completions[i].task_id].active = 0
  /\ \A p \in Slots :
       PassedValidation(p) => CompletionsOf(tx.completions, loc[p].tid) = {}

\* A task is completed and archived, its one record committed, and its owner's
\* second completion of it holds DB_LOCK, about to be validated.
SecondCompletionAttempted ==
  \E p \in Slots :
    /\ pc[p] = "done_validate"
    /\ loc[p].tid \in DOMAIN tasks
    /\ tasks[loc[p].tid].user_id = loc[p].user
    /\ tasks[loc[p].tid].active = 0
    /\ Cardinality(CompletionsOf(completions, loc[p].tid)) = 1

\* A database file after a longer history, as InitRestart, with the streaks
\* one day short of the thresholds 3, 7, 14 and 21, as the best streak or
\* below a best streak of 29 days.
BadgeStreaks == {2, 6, 13, 20}

InitBadges ==
  /\ clock = 0
  /\ \E row \in {NewUserRow(1, "ann")} \cup
                {PriorRow(c, c, IsoDate(d), 0) :
                   c \in BadgeStreaks, d \in {0, -1, -3}} \cup
                {PriorRow(c, 29, IsoDate(d), 0) :
                   c \in BadgeStreaks, d \in {0, -1, -3}} :
       users = (1 :> row)
  /\ tasks \in [1..MaxTasks -> [user_id : {1}, difficulty : {1, 2, 3}, active : {1}]]
  /\ completions = <<>>
  /\ Idle

SpecBadges == InitBadges /\ [][NextRestart]_vars

\* C22: in every reachable state, for every user, best_badge_tier is the
\* largest threshold <= streak_best (0 when streak_best is 0), which is
\* badge_tier_for_streak(streak_best): the stored tier and the best badge the
\* profile derives from streak_best agree.
BestBadgeMatchesBestStreak ==
  \A u \in DOMAIN users :
    /\ users[u].best_badge_tier = LargestThreshold(users[u].streak_best)
    /\ users[u].best_badge_tier = badge_tier_for_streak(users[u].streak_best)
    /\ users[u].best_badge_tier > 0
       => NameBoundTo(users[u].best_badge_tier)
            = badge_name_for_streak(users[u].streak_best)

\* A completion on the day after a best streak of 13 days made it 14 and
\* raised the stored tier from 7 to 14.
BestStreakReachedFox ==
  /\ reply.kind = "ok"
  /\ reply.unlocked
  /\ users[1].streak_best = 14
  /\ users[1].best_badge_tier = 14

\* A handler told its user the outcome of a completion: the XP message or
\* "Already counted".
CompletionReported == reply.kind \in {"ok", "noop"}

\* C23: every committed completion gains between 12 and 50 XP, so a user's xp
\* is non-negative, no step lowers it and each committed completion raises
\* it; an XP gain of 0 is returned only by the duplicate no-op result, which
\* leaves by the double-tap guard, never by a committed completion.
XpGainWithinBounds ==
  /\ [](\A u \in DOMAIN users : users[u].xp >= 0)
  /\ [][\A u \in DOMAIN users :
          /\ u \in DOMAIN users'
          /\ users'[u].xp >= users[u].xp]_vars
  /\ [][\A p \in Slots :
          Commits(p)
          => LET u == loc[p].user
                 g == users'[u].xp - users[u].xp
             IN /\ g \in 12..50
                /\ users'[u].xp > users[u].xp
                /\ loc[p].gained = g
                /\ CompletionReply(loc[p]).gained = g
                /\ CompletionReply(loc[p]).kind = "ok"]_vars
  /\ [](CompletionReported
        => IF reply.gained = 0
           THEN reply.kind = "noop" /\ reply.at = "done_guard"
           ELSE reply.kind = "ok" /\ reply.gained \in 12..50)

\* A completion of a difficulty-1 task after a gap reset the streak to 1
\* below a longer best streak and gained the least, 12 XP.
TwelveAfterReset ==
  /\ reply.kind = "ok"
  /\ reply.gained = 12
  /\ users[1].streak_current = 1
  /\ users[1].streak_best > 1
  /\ Len(completions) = 1

====
